---- MODULE Spec2Model ----
(***************************************************************************)
(* Model of mozsvcdeploy/util.py: the status poller wait_for_status, the   *)
(* readiness wait wait_for_instance_ready and the cleanup_context ledger.  *)
(*                                                                         *)
(* Python's None is the empty sequence and a value x that may be None is   *)
(* <<x>>.  A call argument is a record [given, value]: given is FALSE when *)
(* the caller leaves the argument out and the default of the def applies.  *)
(***************************************************************************)
EXTENDS Integers, Sequences, FiniteSets

VARIABLES
  pc,          \* control location of the single thread
  now,         \* time.time()
  script,      \* per resource: statuses the next update() calls observe
  status_attr, \* per resource: value of its "status" attribute
  resources,   \* cleanup_context.resources
  to_cleanup,  \* __exit__: the sorted candidate list
  idx,         \* __exit__: position of the for loop in to_cleanup
  exc,         \* __exit__: which of exc_typ, exc_val, exc_tb are not None
  wfs,         \* frame of the running wait_for_status call
  wir,         \* frame of the running wait_for_instance_ready call
  port,        \* failing connection attempts left before port 22 accepts
  outcome,     \* how the last top-level call ended
  calls,       \* calls made on resources since the last call began
  logged,      \* resources whose cleanup failure was logged by __exit__
  exited       \* len(self.resources) at each __exit__ call so far

vars == <<pc, now, script, status_attr, resources, to_cleanup, idx, exc,
          wfs, wir, port, outcome, calls, logged, exited>>

----------------------------------------------------------------------------
(* Bounds of the model.                                                    *)

MaxEntries == 2      \* add() calls per ledger
MaxScriptLen == 3    \* length of a resource's status script
MaxSamples == 63     \* samples one wait_for_status call takes in the model
MaxAttempts == 63    \* connection attempts of one readiness wait
MaxRefused == 2      \* refused connections before port 22 accepts
MaxScopes == 2       \* with-scopes one ledger is used in

----------------------------------------------------------------------------
(* Python values.                                                          *)

None == << >>
Some(x) == <<x>>
Omitted == [given |-> FALSE, value |-> None]
Given(v) == [given |-> TRUE, value |-> Some(v)]

\* def wait_for_status(obj, status, via=None, timeout=5*60, sleep_time=5)
DefaultTimeout == 5 * 60
DefaultSleepTime == 5
DefaultVia == None

Arg(a, default) == IF a.given THEN a.value[1] ELSE default

\* The exceptions the model raises; all of them derive from Exception.
RaisedErrors == {"UnexpectedStatus", "OperationTimedOut", "UpdateError",
                 "TerminateError", "DeleteError", "SocketError"}

\* Slip: the handler names RuntimeError, which only wait_for_status raises.
IsRuntimeError(e) == e \in {"UnexpectedStatus", "OperationTimedOut"}

IsException(e) == e \in RaisedErrors

----------------------------------------------------------------------------
(* The resources: test doubles of boto objects, one per case of interest.  *)

Resources == {"i1", "i2", "v1", "s1", "x1", "x2", "x3", "x4"}

Kind(r) ==
  CASE r \in {"i1", "i2"} -> "Instance"
    [] r = "v1" -> "Volume"
    [] r = "s1" -> "Snapshot"
    [] OTHER -> "Other"

HasTerminate(r) == r \in {"i1", "i2", "x1", "x2", "x3"}
HasDelete(r) == r \in {"i2", "v1", "s1", "x1", "x2", "x3"}
HasStatusAttr(r) == r \in {"v1", "s1", "x1"}
\* update() of "x1" writes the attribute and returns nothing.
UpdateReturnsStatus(r) == r # "x1"
TerminateRaises(r) == r = "x2"
\* Seconds an update() call takes: the API is slow for "i2".
UpdateTakes(r) == IF r = "i2" THEN 60 ELSE 0
DeleteRaises(r) == r = "s1"

\* "ERR" in a script: that update() call raises.
LedgerScript(r) ==
  CASE r = "i1" -> <<"shutting-down", "terminated">>
    [] r = "i2" -> <<"shutting-down">>
    [] r = "x1" -> <<"terminated">>
    [] r = "x3" -> <<"ERR", "terminated">>
    [] OTHER -> <<"available">>

----------------------------------------------------------------------------
(* obj.update(): the next status of the script; the last one repeats.      *)

NextStatus(r) == Head(script[r])
RestScript(r) == IF Len(script[r]) > 1 THEN Tail(script[r]) ELSE script[r]
UpdateRaises(r) == NextStatus(r) = "ERR"

\* What update() returns, and the attributes after it has run.
UpdateResult(r) == IF UpdateReturnsStatus(r) THEN NextStatus(r) ELSE "None"
UpdatedAttrs(r) ==
  IF HasStatusAttr(r) /\ ~UpdateRaises(r)
  THEN [status_attr EXCEPT ![r] = NextStatus(r)]
  ELSE status_attr

\* Slip: the attribute is read before update() has run.
GetAttrStatusBeforeUpdate(attrs, r, default) ==
  IF HasStatusAttr(r) THEN status_attr[r] ELSE default

\* getattr(obj, "status", default)
GetAttrStatus(attrs, r, default) ==
  IF HasStatusAttr(r) THEN attrs[r] ELSE default

\* A call made on a resource, what it gave ("raised" or "ERR": it raised)
\* and the time at which it came back.
CallAt(op, r, result, t) == [op |-> op, obj |-> r, result |-> result, at |-> t]
Call(op, r, result) == CallAt(op, r, result, now)

----------------------------------------------------------------------------
(* Frames.                                                                 *)

NoArgs == [via |-> Omitted, timeout |-> Omitted, sleep_time |-> Omitted]

NoWait == [obj |-> "none", status |-> "none", via |-> None, timeout |-> None,
           sleep_time |-> 0, max_time |-> None, caller |-> "none",
           args |-> NoArgs, samples |-> 0, started |-> 0,
           result |-> "none", cur_status |-> "none"]

NoReady == [instance |-> "none", timeout |-> None, sleep_time |-> 0,
            max_time |-> None, attempts |-> 0, started |-> 0,
            status_done |-> None]

\* Slip: "timeout = timeout or 5*60", so None and 0 become the default.
WaitFrameNoneIsDefault(obj, status, via, timeout, sleep_time, caller) ==
  LET a == Arg(timeout, Some(DefaultTimeout))
      t == IF a = None \/ a = Some(0) THEN Some(DefaultTimeout) ELSE a
  IN  [obj |-> obj, status |-> status, via |-> Arg(via, DefaultVia),
       timeout |-> t, sleep_time |-> Arg(sleep_time, DefaultSleepTime),
       max_time |-> IF t # None THEN Some(now + t[1]) ELSE None,
       caller |-> caller,
       args |-> [via |-> via, timeout |-> timeout, sleep_time |-> sleep_time],
       samples |-> 0, started |-> now, result |-> "running",
       cur_status |-> "none"]

\* Entry of wait_for_status: bind the arguments to the parameters of the
\* def, then "if timeout is not None: max_time = time.time() + timeout".
WaitFrame(obj, status, via, timeout, sleep_time, caller) ==
  LET t == Arg(timeout, Some(DefaultTimeout))
  IN  [obj |-> obj, status |-> status, via |-> Arg(via, DefaultVia),
       timeout |-> t, sleep_time |-> Arg(sleep_time, DefaultSleepTime),
       max_time |-> IF t # None THEN Some(now + t[1]) ELSE None,
       caller |-> caller,
       args |-> [via |-> via, timeout |-> timeout, sleep_time |-> sleep_time],
       samples |-> 0, started |-> now, result |-> "running",
       cur_status |-> "none"]

\* Slip: the timeout test comes first.
WaitDecisionTimeoutFirst(cur_status, f, t) ==
  IF f.timeout # None /\ t >= f.max_time[1] THEN "OperationTimedOut"
  ELSE IF cur_status = f.status THEN "True"
  ELSE IF f.via # None /\ cur_status \notin f.via[1] THEN "UnexpectedStatus"
  ELSE "sleep"

\* Slip: the timeout test comes before the test of via.
WaitDecisionTimeoutBeforeVia(cur_status, f, t) ==
  IF cur_status = f.status THEN "True"
  ELSE IF f.timeout # None /\ t >= f.max_time[1] THEN "OperationTimedOut"
  ELSE IF f.via # None /\ cur_status \notin f.via[1] THEN "UnexpectedStatus"
  ELSE "sleep"

\* Slip: the deadline test is "time.time() > max_time".
WaitDecisionStrictDeadline(cur_status, f, t) ==
  IF cur_status = f.status THEN "True"
  ELSE IF f.via # None /\ cur_status \notin f.via[1] THEN "UnexpectedStatus"
  ELSE IF f.timeout # None /\ t > f.max_time[1] THEN "OperationTimedOut"
  ELSE "sleep"

\* The body of the while loop after the sample: what the turn does.
WaitDecision(cur_status, f, t) ==
  IF cur_status = f.status THEN "True"
  ELSE IF f.via # None /\ cur_status \notin f.via[1] THEN "UnexpectedStatus"
  ELSE IF f.timeout # None /\ t >= f.max_time[1] THEN "OperationTimedOut"
  ELSE "sleep"

----------------------------------------------------------------------------
(* cleanup_context                                                         *)

Entry(r, kos, koe) ==
  [resource |-> r, keep_on_success |-> kos, keep_on_error |-> koe]

OrderedClasses == <<"Instance", "Volume", "Snapshot">>

IsInstance(r, cls) == Kind(r) = cls

SetMin(S) == CHOOSE m \in S : \A n \in S : m <= n

\* Slip: "return i" after the loop, so an unknown kind ties with snapshots.
SortkeyReturnsLastIndex(r) ==
  LET hits == {i \in 1..Len(OrderedClasses) : IsInstance(r, OrderedClasses[i])}
  IN  IF hits # {} THEN SetMin(hits) - 1
      ELSE Len(OrderedClasses) - 1

\* _sortkey_for_cleanup_ordering: the 0-based index of the first class the
\* resource is an instance of, else the last index plus one.
SortkeyForCleanupOrdering(r) ==
  LET hits == {i \in 1..Len(OrderedClasses) : IsInstance(r, OrderedClasses[i])}
  IN  IF hits # {} THEN SetMin(hits) - 1
      ELSE (Len(OrderedClasses) - 1) + 1

\* list.sort(key=...) is stable: an element goes behind every element whose
\* key is not greater.
InsertByKey(s, x) ==
  LET before == SelectSeq(s, LAMBDA y :
                  SortkeyForCleanupOrdering(y) <= SortkeyForCleanupOrdering(x))
      after == SelectSeq(s, LAMBDA y :
                  SortkeyForCleanupOrdering(y) > SortkeyForCleanupOrdering(x))
  IN  before \o <<x>> \o after

RECURSIVE SortByKey(_)
SortByKey(s) ==
  IF s = << >> THEN << >>
  ELSE InsertByKey(SortByKey(SubSeq(s, 1, Len(s) - 1)), s[Len(s)])

\* Slip: only exc_typ is looked at.
IsSuccessExitTypOnly(e) == ~e.exc_typ

\* exc_typ is None and exc_val is None and exc_tb is None
IsSuccessExit(e) == ~e.exc_typ /\ ~e.exc_val /\ ~e.exc_tb

\* Slip: the success branch tests r[2] and the failure branch r[1].
CandidatesFlagsSwapped(rs, e) ==
  LET kept(ent) == IF IsSuccessExit(e) THEN ent.keep_on_error
                   ELSE ent.keep_on_success
      sel == SelectSeq(rs, LAMBDA ent : ~kept(ent))
  IN  [i \in 1..Len(sel) |-> sel[i].resource]

Candidates(rs, e) ==
  LET kept(ent) == IF IsSuccessExit(e) THEN ent.keep_on_success
                   ELSE ent.keep_on_error
      sel == SelectSeq(rs, LAMBDA ent : ~kept(ent))
  IN  [i \in 1..Len(sel) |-> sel[i].resource]

\* def add(self, resource, keep_on_success=False, keep_on_error=False)
DefaultKeepOnSuccess == FALSE
DefaultKeepOnError == FALSE

KeepArgs == {Omitted, Given(TRUE)}

add(resource, keep_on_success, keep_on_error) ==
  /\ pc = "body"
  /\ Len(resources) < MaxEntries
  /\ resources' = Append(resources,
       Entry(resource, Arg(keep_on_success, DefaultKeepOnSuccess),
                       Arg(keep_on_error, DefaultKeepOnError)))
  /\ UNCHANGED <<pc, now, script, status_attr, to_cleanup, idx, exc, wfs,
                 wir, port, outcome, calls, logged, exited>>

ExcSignals ==
  {[exc_typ |-> FALSE, exc_val |-> FALSE, exc_tb |-> FALSE],
   [exc_typ |-> TRUE, exc_val |-> TRUE, exc_tb |-> TRUE],
   [exc_typ |-> FALSE, exc_val |-> FALSE, exc_tb |-> TRUE]}

\* Slip: the entries selected for teardown are taken out of self.resources.
ExitTakesCandidatesOut(e) ==
  /\ pc = "body"
  /\ exc' = e
  /\ to_cleanup' = SortByKey(Candidates(resources, e))
  /\ resources' = SelectSeq(resources,
                     LAMBDA en : IF IsSuccessExit(e) THEN en.keep_on_success
                                 ELSE en.keep_on_error)
  /\ idx' = 1
  /\ pc' = "__exit__"
  /\ outcome' = "running"
  /\ calls' = << >>
  /\ logged' = << >>
  /\ exited' = Append(exited, Len(resources))
  /\ UNCHANGED <<now, script, status_attr, wfs, wir, port>>

\* __exit__ up to the for loop: select the candidates and sort them.
Exit(e) ==
  /\ pc = "body"
  /\ exc' = e
  /\ to_cleanup' = SortByKey(Candidates(resources, e))
  /\ idx' = 1
  /\ pc' = "__exit__"
  /\ outcome' = "running"
  /\ calls' = << >>
  /\ logged' = << >>
  /\ exited' = Append(exited, Len(resources))
  /\ UNCHANGED <<now, script, status_attr, resources, wfs, wir, port>>

\* Slip: the handler logs and leaves the loop.
CleanupFailedBreaks(r, e) ==
  /\ logged' = Append(logged, [obj |-> r, pos |-> idx, error |-> e])
  /\ idx' = Len(to_cleanup) + 1
  /\ pc' = "__exit__"
  /\ outcome' = outcome

\* except Exception: logger.exception(...); the loop goes on.
CleanupFailed(r, e) ==
  IF IsException(e)
  THEN /\ logged' = Append(logged, [obj |-> r, pos |-> idx, error |-> e])
       /\ idx' = idx + 1
       /\ pc' = "__exit__"
       /\ outcome' = outcome
  ELSE /\ logged' = logged
       /\ idx' = idx
       /\ pc' = "done"
       /\ outcome' = e

\* Slip: delete() is called without the hasattr test.
DeleteStepUnconditional(r, sofar) ==
  /\ calls' = Append(sofar, Call("delete", r,
                      IF DeleteRaises(r) THEN "raised" ELSE "ok"))
  /\ IF DeleteRaises(r)
     THEN CleanupFailed(r, "DeleteError")
     ELSE /\ idx' = idx + 1
          /\ pc' = "__exit__"
          /\ UNCHANGED <<logged, outcome>>

\* The tail of _cleanup_resource: delete() if the resource has one.
DeleteStep(r, sofar) ==
  IF HasDelete(r)
  THEN /\ calls' = Append(sofar, Call("delete", r,
                           IF DeleteRaises(r) THEN "raised" ELSE "ok"))
       /\ IF DeleteRaises(r)
          THEN CleanupFailed(r, "DeleteError")
          ELSE /\ idx' = idx + 1
               /\ pc' = "__exit__"
               /\ UNCHANGED <<logged, outcome>>
  ELSE /\ calls' = sofar
       /\ idx' = idx + 1
       /\ pc' = "__exit__"
       /\ UNCHANGED <<logged, outcome>>

\* Slip: the teardown wait is given timeout=None.
CleanupWaitFrameNoTimeout(r) ==
  WaitFrame(r, "terminated", Omitted, Given(None), Omitted, "cleanup")

\* wait_for_status(resource, "terminated")
CleanupWaitFrame(r) ==
  WaitFrame(r, "terminated", Omitted, Omitted, Omitted, "cleanup")

\* Slip: delete() is called right after terminate(), before the wait.
CleanupResourceDeleteFirst ==
  /\ pc = "__exit__"
  /\ idx <= Len(to_cleanup)
  /\ LET r == to_cleanup[idx]
         entered == Append(calls, Call("cleanup", r, "ok"))
         terminated == Append(entered, Call("terminate", r,
                                IF TerminateRaises(r) THEN "raised" ELSE "ok"))
     IN  IF HasTerminate(r)
         THEN IF TerminateRaises(r)
              THEN /\ calls' = terminated
                   /\ CleanupFailed(r, "TerminateError")
                   /\ wfs' = wfs
              ELSE /\ calls' = IF HasDelete(r)
                               THEN Append(terminated, Call("delete", r, "ok"))
                               ELSE terminated
                   /\ wfs' = CleanupWaitFrame(r)
                   /\ pc' = "wait_for_status"
                   /\ UNCHANGED <<idx, logged, outcome>>
         ELSE /\ DeleteStep(r, entered)
              /\ wfs' = wfs
  /\ UNCHANGED <<now, script, status_attr, resources, to_cleanup, exc, wir,
                 port, exited>>

\* One turn of the for loop up to the first blocking point: terminate()
\* and the entry of wait_for_status(resource, "terminated"), or the whole
\* of _cleanup_resource for a resource without terminate.
CleanupResource ==
  /\ pc = "__exit__"
  /\ idx <= Len(to_cleanup)
  /\ LET r == to_cleanup[idx]
         entered == Append(calls, Call("cleanup", r, "ok"))
     IN  IF HasTerminate(r)
         THEN /\ calls' = Append(entered, Call("terminate", r,
                             IF TerminateRaises(r) THEN "raised" ELSE "ok"))
              /\ IF TerminateRaises(r)
                 THEN /\ CleanupFailed(r, "TerminateError")
                      /\ wfs' = wfs
                 ELSE /\ wfs' = CleanupWaitFrame(r)
                      /\ pc' = "wait_for_status"
                      /\ UNCHANGED <<idx, logged, outcome>>
         ELSE /\ DeleteStep(r, entered)
              /\ wfs' = wfs
  /\ UNCHANGED <<now, script, status_attr, resources, to_cleanup, exc, wir,
                 port, exited>>

\* _cleanup_resource after wait_for_status has returned.
CleanupAfterWait ==
  /\ pc = "after_wait"
  /\ DeleteStep(to_cleanup[idx], calls)
  /\ UNCHANGED <<now, script, status_attr, resources, to_cleanup, exc, wfs,
                 wir, port, exited>>

\* Slip: __exit__ empties self.resources before it returns.
ExitReturnDiscards ==
  /\ pc = "__exit__"
  /\ idx > Len(to_cleanup)
  /\ pc' = "done"
  /\ outcome' = "None"
  /\ resources' = << >>
  /\ UNCHANGED <<now, script, status_attr, to_cleanup, idx, exc,
                 wfs, wir, port, calls, logged, exited>>

\* The for loop is exhausted: __exit__ returns None.
ExitReturn ==
  /\ pc = "__exit__"
  /\ idx > Len(to_cleanup)
  /\ pc' = "done"
  /\ outcome' = "None"
  /\ UNCHANGED <<now, script, status_attr, resources, to_cleanup, idx, exc,
                 wfs, wir, port, calls, logged, exited>>

----------------------------------------------------------------------------
(* wait_for_status                                                         *)

\* Slip: the ssh loop starts a deadline of its own.
WaitReturnsOwnBudget ==
  CASE wfs.caller = "cleanup" ->
         /\ pc' = "after_wait"
         /\ UNCHANGED <<idx, logged, outcome, wir>>
    [] wfs.caller = "ready" ->
         /\ pc' = "connect"
         /\ wir' = [wir EXCEPT !.status_done = Some(now'),
                               !.max_time = IF wir.timeout # None
                                            THEN Some(now' + wir.timeout[1])
                                            ELSE None]
         /\ UNCHANGED <<idx, logged, outcome>>
    [] OTHER ->
         /\ pc' = "done"
         /\ outcome' = "True"
         /\ UNCHANGED <<idx, logged, wir>>

\* wait_for_status returns True to its caller.
WaitReturns ==
  CASE wfs.caller = "cleanup" ->
         /\ pc' = "after_wait"
         /\ UNCHANGED <<idx, logged, outcome, wir>>
    [] wfs.caller = "ready" ->
         /\ pc' = "connect"
         /\ wir' = [wir EXCEPT !.status_done = Some(now')]
         /\ UNCHANGED <<idx, logged, outcome>>
    [] OTHER ->
         /\ pc' = "done"
         /\ outcome' = "True"
         /\ UNCHANGED <<idx, logged, wir>>

\* Slip: a failing update() is caught in the loop and the sample retried.
WaitRaisesRetriesUpdate(e) ==
  IF e = "UpdateError"
  THEN UNCHANGED <<pc, idx, logged, outcome, wir>>
  ELSE CASE wfs.caller = "cleanup" ->
              /\ CleanupFailed(wfs.obj, e)
              /\ wir' = wir
         [] OTHER ->
              /\ pc' = "done"
              /\ outcome' = e
              /\ UNCHANGED <<idx, logged, wir>>

\* Slip: wait_for_instance_ready goes on to the ssh loop when the status
\* phase has raised.
WaitRaisesReadyGoesOn(e) ==
  CASE wfs.caller = "cleanup" ->
         /\ CleanupFailed(wfs.obj, e)
         /\ wir' = wir
    [] wfs.caller = "ready" ->
         /\ pc' = "connect"
         /\ UNCHANGED <<idx, logged, outcome, wir>>
    [] OTHER ->
         /\ pc' = "done"
         /\ outcome' = e
         /\ UNCHANGED <<idx, logged, wir>>

\* Slip: _cleanup_resource logs a failed wait itself and goes on to delete().
WaitRaisesCleanupGoesOn(e) ==
  CASE wfs.caller = "cleanup" ->
         /\ logged' = Append(logged, [obj |-> wfs.obj, pos |-> idx, error |-> e])
         /\ pc' = "after_wait"
         /\ UNCHANGED <<idx, outcome, wir>>
    [] OTHER ->
         /\ pc' = "done"
         /\ outcome' = e
         /\ UNCHANGED <<idx, logged, wir>>

\* wait_for_status raises e to its caller.
WaitRaises(e) ==
  CASE wfs.caller = "cleanup" ->
         /\ CleanupFailed(wfs.obj, e)
         /\ wir' = wir
    [] OTHER ->
         /\ pc' = "done"
         /\ outcome' = e
         /\ UNCHANGED <<idx, logged, wir>>

\* One turn of the while loop.
WaitIteration ==
  /\ pc = "wait_for_status"
  /\ wfs.samples < MaxSamples
  /\ LET obj == wfs.obj
         cur_status == GetAttrStatus(UpdatedAttrs(obj), obj, UpdateResult(obj))
         t == now + UpdateTakes(obj)
         does == IF UpdateRaises(obj) THEN "UpdateError"
                 ELSE WaitDecision(cur_status, wfs, t)
     IN  /\ calls' = Append(calls, CallAt("update", obj, NextStatus(obj), t))
         /\ script' = [script EXCEPT ![obj] = RestScript(obj)]
         /\ status_attr' = UpdatedAttrs(obj)
         /\ wfs' = [wfs EXCEPT !.samples = @ + 1,
                               !.result = IF does = "sleep" THEN @ ELSE does,
                               !.cur_status = IF UpdateRaises(obj) THEN @
                                              ELSE cur_status]
         /\ CASE does = "True" -> now' = t /\ WaitReturns
              [] does = "sleep" ->
                   /\ now' = t + wfs.sleep_time
                   /\ UNCHANGED <<pc, idx, logged, outcome, wir>>
              [] OTHER -> now' = t /\ WaitRaises(does)
  /\ UNCHANGED <<resources, to_cleanup, exc, port, exited>>

----------------------------------------------------------------------------
(* The ledger in one with-scope.                                           *)

Init ==
  /\ pc = "body"
  /\ now = 0
  /\ script = [r \in Resources |-> LedgerScript(r)]
  /\ status_attr = [r \in Resources |->
                      IF HasStatusAttr(r) THEN "available" ELSE "None"]
  /\ resources = << >>
  /\ to_cleanup = << >>
  /\ idx = 1
  /\ exc = [exc_typ |-> FALSE, exc_val |-> FALSE, exc_tb |-> FALSE]
  /\ wfs = NoWait
  /\ wir = NoReady
  /\ port = 0
  /\ outcome = "none"
  /\ calls = << >>
  /\ logged = << >>
  /\ exited = << >>

Next ==
  \/ \E r \in Resources, kos \in KeepArgs, koe \in KeepArgs : add(r, kos, koe)
  \/ \E e \in ExcSignals : Exit(e)
  \/ CleanupResource
  \/ CleanupAfterWait
  \/ ExitReturn
  \/ WaitIteration

Spec == Init /\ [][Next]_vars

----------------------------------------------------------------------------
(* One ledger used in several with-scopes.                                 *)

\* __enter__ returns self; called again once __exit__ has returned.
Enter ==
  /\ pc = "done"
  /\ Len(exited) < MaxScopes
  /\ pc' = "body"
  /\ UNCHANGED <<now, script, status_attr, resources, to_cleanup, idx, exc,
                 wfs, wir, port, outcome, calls, logged, exited>>

ReuseResources == {"i1", "v1"}

NextReuse ==
  \/ \E r \in ReuseResources, kos \in KeepArgs, koe \in KeepArgs :
       add(r, kos, koe)
  \/ \E e \in ExcSignals : Exit(e)
  \/ Enter
  \/ CleanupResource
  \/ CleanupAfterWait
  \/ ExitReturn
  \/ WaitIteration

SpecReuse == Init /\ [][NextReuse]_vars

----------------------------------------------------------------------------
(* wait_for_status called on its own.                                      *)

WaitStatuses == {"pending", "running", "stopped", "ERR"}

Scripts == UNION {[1..n -> WaitStatuses] : n \in 1..MaxScriptLen}

WaitSubjects == {"i1", "x1"}

ViaArgs == {Omitted, Given(None), Given(Some({"pending"}))}
TimeoutArgs == {Omitted, Given(None), Given(Some(0)), Given(Some(7)),
                Given(Some(20))}
SleepArgs == {Omitted, Given(10)}

\* Slip: the loop is "while time.time() < max_time", so a deadline that has
\* passed on entry raises before any sample.
CallWaitForStatusTestsDeadlineFirst(obj, status, via, timeout, sleep_time) ==
  /\ pc = "idle"
  /\ LET f == WaitFrame(obj, status, via, timeout, sleep_time, "top")
     IN  IF f.timeout # None /\ now >= f.max_time[1]
         THEN /\ wfs' = [f EXCEPT !.result = "OperationTimedOut"]
              /\ pc' = "done"
              /\ outcome' = "OperationTimedOut"
         ELSE /\ wfs' = f
              /\ pc' = "wait_for_status"
              /\ outcome' = "running"
  /\ calls' = << >>
  /\ UNCHANGED <<now, script, status_attr, resources, to_cleanup, idx, exc,
                 wir, port, logged, exited>>

\* Entry of wait_for_status up to the while loop.
CallWaitForStatus(obj, status, via, timeout, sleep_time) ==
  /\ pc = "idle"
  /\ wfs' = WaitFrame(obj, status, via, timeout, sleep_time, "top")
  /\ pc' = "wait_for_status"
  /\ outcome' = "running"
  /\ calls' = << >>
  /\ UNCHANGED <<now, script, status_attr, resources, to_cleanup, idx, exc,
                 wir, port, logged, exited>>

InitWait ==
  /\ pc = "idle"
  /\ now = 0
  /\ \E s \in Scripts :
       script = [r \in Resources |->
                   IF r \in WaitSubjects THEN s ELSE LedgerScript(r)]
  /\ \E a \in {"pending", "running"} :
       status_attr = [r \in Resources |-> IF HasStatusAttr(r) THEN a ELSE "None"]
  /\ resources = << >>
  /\ to_cleanup = << >>
  /\ idx = 1
  /\ exc = [exc_typ |-> FALSE, exc_val |-> FALSE, exc_tb |-> FALSE]
  /\ wfs = NoWait
  /\ wir = NoReady
  /\ port = None
  /\ outcome = "none"
  /\ calls = << >>
  /\ logged = << >>
  /\ exited = << >>

NextWait ==
  \/ \E obj \in WaitSubjects, via \in ViaArgs, timeout \in TimeoutArgs,
        sleep_time \in SleepArgs :
       CallWaitForStatus(obj, "running", via, timeout, sleep_time)
  \/ WaitIteration

SpecWait == InitWait /\ [][NextWait]_vars

\* The caller's thread is not suspended for ever: a loop turn that can be
\* taken is taken.
SpecWaitFair == SpecWait /\ WF_vars(WaitIteration)

----------------------------------------------------------------------------
(* wait_for_instance_ready                                                 *)

\* def wait_for_instance_ready(instance, timeout=5*60, sleep_time=5)
ReadyDefaultTimeout == 5 * 60
ReadyDefaultSleepTime == 5

\* Entry of wait_for_instance_ready up to the call of wait_for_status.
CallWaitForInstanceReady(instance, timeout, sleep_time) ==
  /\ pc = "idle"
  /\ LET t == Arg(timeout, Some(ReadyDefaultTimeout))
         st == Arg(sleep_time, ReadyDefaultSleepTime)
     IN  /\ wir' = [instance |-> instance, timeout |-> t, sleep_time |-> st,
                    max_time |-> IF t # None THEN Some(now + t[1]) ELSE None,
                    attempts |-> 0, started |-> now, status_done |-> None]
         /\ wfs' = WaitFrame(instance, "running", Given(Some({"pending"})),
                             Given(t), Given(st), "ready")
  /\ pc' = "wait_for_status"
  /\ outcome' = "running"
  /\ calls' = << >>
  /\ UNCHANGED <<now, script, status_attr, resources, to_cleanup, idx, exc,
                 port, logged, exited>>

\* One turn of the ssh loop.  port = None: port 22 never accepts; a refused
\* connection takes no time.
ConnectAttempt ==
  /\ pc = "connect"
  /\ wir.attempts < MaxAttempts
  /\ calls' = Append(calls, Call("connect", wir.instance,
                      IF port = Some(0) THEN "ok" ELSE "refused"))
  /\ wir' = [wir EXCEPT !.attempts = @ + 1]
  /\ IF port = Some(0)
     THEN /\ pc' = "done"
          /\ outcome' = "None"
          /\ UNCHANGED <<now, port>>
     ELSE /\ port' = IF port = None THEN None ELSE Some(port[1] - 1)
          /\ IF wir.timeout # None /\ now >= wir.max_time[1]
             THEN /\ pc' = "done"
                  /\ outcome' = "OperationTimedOut"
                  /\ now' = now
             ELSE /\ now' = now + wir.sleep_time
                  /\ UNCHANGED <<pc, outcome>>
  /\ UNCHANGED <<script, status_attr, resources, to_cleanup, idx, exc, wfs,
                 logged, exited>>

ReadyStatuses == {"pending", "running", "stopped"}
ReadyScripts == UNION {[1..n -> ReadyStatuses] : n \in 1..MaxScriptLen}
ReadyTimeoutArgs == {Omitted, Given(None), Given(Some(0)), Given(Some(7)),
                     Given(Some(20))}
InitReady ==
  /\ pc = "idle"
  /\ now = 0
  /\ \E s \in ReadyScripts :
       script = [r \in Resources |-> IF r = "i1" THEN s ELSE LedgerScript(r)]
  /\ status_attr = [r \in Resources |->
                      IF HasStatusAttr(r) THEN "available" ELSE "None"]
  /\ resources = << >>
  /\ to_cleanup = << >>
  /\ idx = 1
  /\ exc = [exc_typ |-> FALSE, exc_val |-> FALSE, exc_tb |-> FALSE]
  /\ wfs = NoWait
  /\ wir = NoReady
  /\ port \in {None} \cup {Some(k) : k \in 0..MaxRefused}
  /\ outcome = "none"
  /\ calls = << >>
  /\ logged = << >>
  /\ exited = << >>

NextReady ==
  \/ \E timeout \in ReadyTimeoutArgs, sleep_time \in SleepArgs :
       CallWaitForInstanceReady("i1", timeout, sleep_time)
  \/ WaitIteration
  \/ ConnectAttempt

SpecReady == InitReady /\ [][NextReady]_vars

----------------------------------------------------------------------------
(* What the properties read off the state.                                 *)

CallsOf(op) == SelectSeq(calls, LAMBDA c : c.op = op)
CallsOn(op, r) == SelectSeq(calls, LAMBDA c : c.op = op /\ c.obj = r)

\* The resources _cleanup_resource was invoked on, in order.
Attempted ==
  LET cs == CallsOf("cleanup") IN [i \in 1..Len(cs) |-> cs[i].obj]

AllNone(e) == e = [exc_typ |-> FALSE, exc_val |-> FALSE, exc_tb |-> FALSE]

\* The entries __exit__ has to destroy, in registration order.
Due ==
  SelectSeq(resources, LAMBDA ent :
    IF AllNone(exc) THEN ~ent.keep_on_success ELSE ~ent.keep_on_error)

DueOfKinds(K) ==
  LET sel == SelectSeq(Due, LAMBDA ent : Kind(ent.resource) \in K)
  IN  [i \in 1..Len(sel) |-> sel[i].resource]

TeardownOrder ==
  DueOfKinds({"Instance"}) \o DueOfKinds({"Volume"}) \o
  DueOfKinds({"Snapshot"}) \o DueOfKinds({"Other"})

IsPrefix(s, t) == Len(s) <= Len(t) /\ s = SubSeq(t, 1, Len(s))

InExit == pc \in {"__exit__", "wait_for_status", "after_wait"}

\* Every call on a resource belongs to the candidate entered last.
OneAtATime ==
  \A k \in 1..Len(calls) :
    calls[k].op # "cleanup" => (k > 1 /\ calls[k - 1].obj = calls[k].obj)

----------------------------------------------------------------------------
(* C1: __exit__ attempts the candidates in the order instances, volumes,   *)
(* snapshots, unrecognized kinds, each kind in registration order, one     *)
(* candidate at a time: the attempts made so far are a prefix of that      *)
(* order, all of it once __exit__ has returned, and every call on a        *)
(* resource falls between its candidate's entry and the next one's.  The   *)
(* sort key of an unrecognized kind is 3, the length of the table.         *)
C1_TeardownOrder ==
  LET att == Attempted
      ord == TeardownOrder
  IN  /\ \A i \in 1..Len(to_cleanup) :
           Kind(to_cleanup[i]) = "Other" =>
             SortkeyForCleanupOrdering(to_cleanup[i]) = 3
      /\ IsPrefix(att, ord)
      /\ pc = "done" => att = ord
      /\ OneAtATime

\* A ledger whose teardown order differs from its registration order.
C1_Witness ==
  /\ pc = "done"
  /\ Len(Attempted) = MaxEntries
  /\ Attempted # [i \in 1..Len(Due) |-> Due[i].resource]
  /\ Kind(Attempted[1]) # "Instance"

----------------------------------------------------------------------------
(* C2: on a success exit (exc_typ, exc_val, exc_tb all None) an entry      *)
(* registered with keep_on_success=True is not destroyed: a resource gets  *)
(* no more cleanup, terminate or delete calls than it has entries without  *)
(* the flag.  On a failure exit an entry with keep_on_success=True and     *)
(* keep_on_error left out is attempted.                                    *)
EntriesOf(r, P(_)) ==
  Cardinality({i \in 1..Len(resources) :
                 resources[i].resource = r /\ P(resources[i])})

C2_KeepOnSuccess ==
  /\ AllNone(exc) =>
       \A r \in Resources :
         LET due == EntriesOf(r, LAMBDA ent : ~ent.keep_on_success)
         IN  /\ Len(CallsOn("cleanup", r)) <= due
             /\ Len(CallsOn("terminate", r)) <= due
             /\ Len(CallsOn("delete", r)) <= due
  /\ (pc = "done" /\ ~AllNone(exc)) =>
       \A r \in Resources :
         Len(CallsOn("cleanup", r)) >=
           EntriesOf(r, LAMBDA ent : ent.keep_on_success /\ ~ent.keep_on_error)

\* A success exit that destroyed one resource and kept a terminable one.
C2_Witness ==
  /\ pc = "done"
  /\ AllNone(exc)
  /\ Len(calls) > 0
  /\ \E i \in 1..Len(resources) :
       /\ resources[i].keep_on_success
       /\ ~resources[i].keep_on_error
       /\ HasTerminate(resources[i].resource)
       /\ Len(CallsOn("cleanup", resources[i].resource)) = 0

----------------------------------------------------------------------------
(* C3: on a failure exit (any of exc_typ, exc_val, exc_tb not None) an     *)
(* entry registered with keep_on_error=True is not destroyed; on a success *)
(* exit an entry with keep_on_error=True and keep_on_success left out is   *)
(* attempted.                                                              *)
C3_KeepOnError ==
  /\ (exc.exc_typ \/ exc.exc_val \/ exc.exc_tb) =>
       \A r \in Resources :
         LET due == EntriesOf(r, LAMBDA ent : ~ent.keep_on_error)
         IN  /\ Len(CallsOn("cleanup", r)) <= due
             /\ Len(CallsOn("terminate", r)) <= due
             /\ Len(CallsOn("delete", r)) <= due
  /\ (pc = "done" /\ ~(exc.exc_typ \/ exc.exc_val \/ exc.exc_tb)) =>
       \A r \in Resources :
         Len(CallsOn("cleanup", r)) >=
           EntriesOf(r, LAMBDA ent : ent.keep_on_error /\ ~ent.keep_on_success)

\* A failure exit signalled by exc_tb alone that kept a deletable resource.
C3_Witness ==
  /\ pc = "done"
  /\ exc.exc_tb /\ ~exc.exc_typ
  /\ Len(calls) > 0
  /\ \E i \in 1..Len(resources) :
       /\ resources[i].keep_on_error
       /\ ~resources[i].keep_on_success
       /\ HasDelete(resources[i].resource)
       /\ Len(CallsOn("cleanup", resources[i].resource)) = 0

----------------------------------------------------------------------------
(* C4: when the destruction of a candidate raises, from terminate(), from  *)
(* the wait for "terminated" or from delete(), the failure is logged and   *)
(* every candidate behind it in teardown order is still attempted in the   *)
(* same __exit__.                                                          *)
RaisedIn(c) == c.result \in {"raised", "ERR"}

C4_FailureDoesNotStopTeardown ==
  /\ \A k \in 1..Len(calls) :
       \* a call that raised is the last call on its candidate
       RaisedIn(calls[k]) =>
         (k < Len(calls) => calls[k + 1].op = "cleanup")
  /\ LET att == Attempted
         ord == TeardownOrder
     IN  /\ pc = "done" =>
              /\ \A l \in 1..Len(logged) :
                   \A j \in (logged[l].pos + 1)..Len(ord) :
                     Len(att) >= j /\ att[j] = ord[j]
              /\ \A k \in 1..Len(calls) :
                   RaisedIn(calls[k]) =>
                     \E l \in 1..Len(logged) : logged[l].obj = calls[k].obj
         /\ \A l \in 1..Len(logged) :
              /\ logged[l].pos <= Len(att)
              /\ att[logged[l].pos] = logged[l].obj

\* The wait for the first candidate timed out and the second was attempted.
C4_Witness ==
  /\ pc = "done"
  /\ Len(logged) > 0
  /\ logged[1].pos = 1
  /\ logged[1].error = "OperationTimedOut"
  /\ Len(Attempted) = 2

----------------------------------------------------------------------------
(* C5: __exit__ never raises, whatever the destruction of a resource       *)
(* raises: while it runs it can always take a step, and it ends by         *)
(* returning None, which is falsy, so the exception that triggered the     *)
(* exit is not suppressed.                                                 *)
Truthy(v) == v = "True"

C5_ExitNeverRaises ==
  /\ outcome \notin RaisedErrors
  /\ InExit => outcome = "running"
  /\ InExit => ENABLED (CleanupResource \/ CleanupAfterWait \/ ExitReturn
                        \/ WaitIteration)
  /\ pc = "done" => (outcome = "None" /\ ~Truthy(outcome))

\* __exit__ returned after terminate(), the wait and delete() each raised.
C5_Witness ==
  /\ pc = "done"
  /\ outcome = "None"
  /\ \E a, b \in 1..Len(logged) :
       /\ logged[a].error = "TerminateError"
       /\ logged[b].error \in {"UpdateError", "OperationTimedOut"}

----------------------------------------------------------------------------
(* C6 as stated: the teardown wait has no timeout bound, so a candidate    *)
(* whose status never becomes "terminated", and whose sampling never       *)
(* raises, blocks __exit__: no later candidate is attempted and __exit__   *)
(* does not return.                                                        *)
NeverTerminated(r) ==
  \A i \in 1..Len(script[r]) : script[r][i] \notin {"terminated", "ERR"}

C6_StuckResourceBlocksExit ==
  \A k \in 1..Len(calls) :
    (calls[k].op = "terminate" /\ calls[k].result = "ok"
       /\ NeverTerminated(calls[k].obj)) =>
      /\ pc # "done"
      /\ \A j \in (k + 1)..Len(calls) : calls[j].op # "cleanup"

(* C6 amended: the teardown wait leaves the timeout out, so the default of *)
(* 5*60 seconds applies: the wait for a candidate that never becomes       *)
(* "terminated" raises "Operation timed out" at the first sample that      *)
(* comes back at or after 300 seconds from its start, __exit__ logs it and *)
(* goes on.                                                                *)
C6_TeardownWaitTimesOut ==
  /\ (pc = "wait_for_status" /\ wfs.caller = "cleanup") =>
       /\ wfs.status = "terminated"
       /\ wfs.via = None
       /\ wfs.args.timeout = Omitted
       /\ wfs.timeout = Some(300)
       /\ wfs.max_time = Some(wfs.started + 300)
       /\ now < wfs.started + 300 + wfs.sleep_time
       /\ \A k \in 1..Len(calls) :
            (calls[k].op = "update" /\ calls[k].obj = wfs.obj
               /\ calls[k].at >= wfs.started) =>
              calls[k].at < wfs.started + 300
  /\ (wfs.caller = "cleanup" /\ wfs.result = "OperationTimedOut") =>
       LET ups == CallsOn("update", wfs.obj)
           last == ups[Len(ups)]
       IN  /\ last.at >= wfs.started + 300
           /\ \E l \in 1..Len(logged) :
                logged[l].obj = wfs.obj /\ logged[l].error = "OperationTimedOut"
  /\ pc = "done" =>
       \A k \in 1..Len(calls) :
         (calls[k].op = "terminate" /\ calls[k].result = "ok"
            /\ NeverTerminated(calls[k].obj)) =>
           \E l \in 1..Len(logged) :
             /\ logged[l].obj = calls[k].obj
             /\ logged[l].error = "OperationTimedOut"

\* The wait for a stuck candidate timed out and a later one was deleted.
C6_Witness ==
  /\ pc = "done"
  /\ now >= 300
  /\ \E l \in 1..Len(logged) : logged[l].error = "OperationTimedOut"
  /\ calls[Len(calls)].op = "delete"
  /\ calls[Len(calls)].result = "ok"

----------------------------------------------------------------------------
(* C7 as stated: the connectivity phase of wait_for_instance_ready has a   *)
(* full timeout budget of its own: when it raises "Operation timed out",   *)
(* at least timeout seconds have passed since the status phase finished.   *)
ConnectPhaseTimedOut ==
  outcome = "OperationTimedOut" /\ wir.status_done # None

C7_OwnBudgetPerPhase ==
  ConnectPhaseTimedOut => now - wir.status_done[1] >= wir.timeout[1]

(* C7 amended: both phases run against one deadline, entry time plus       *)
(* timeout: wait_for_status gets the same max_time, and the connectivity   *)
(* phase raises "Operation timed out" at the first refused connection at   *)
(* or after that deadline, however much of the budget the status phase     *)
(* used.                                                                   *)
C7_SharedDeadline ==
  wir.instance # "none" =>
    LET cs == CallsOf("connect") IN
    /\ wir.max_time = IF wir.timeout = None THEN None
                      ELSE Some(wir.started + wir.timeout[1])
    /\ wfs.max_time = wir.max_time
    /\ ConnectPhaseTimedOut =>
         /\ now >= wir.started + wir.timeout[1]
         /\ cs[Len(cs)].at = now
         /\ \A j \in 1..(Len(cs) - 1) : cs[j].at < wir.started + wir.timeout[1]
    /\ (pc = "connect" /\ wir.timeout # None) =>
         \A j \in 1..Len(cs) : cs[j].at < wir.started + wir.timeout[1]

\* The status phase used part of the budget and the connectivity phase
\* timed out on what was left.
C7_Witness ==
  /\ ConnectPhaseTimedOut
  /\ wir.status_done[1] > wir.started
  /\ wir.attempts >= 2
  /\ now - wir.status_done[1] < wir.timeout[1]

----------------------------------------------------------------------------
(* C8 as stated: a caller that supplies no timeout gets an unbounded poll: *)
(* while every sample is a non-target status that via allows, the call     *)
(* neither raises "Operation timed out" nor returns.                       *)
Seen == CallsOf("update")

IsTransit(st) ==
  /\ st \notin {wfs.status, "ERR"}
  /\ wfs.via # None => st \in wfs.via[1]

AllTransit == \A k \in 1..Len(Seen) : IsTransit(Seen[k].result)

C8_NoTimeoutSuppliedPollsForever ==
  (wfs.caller = "top" /\ wfs.args.timeout = Omitted /\ AllTransit) =>
    (outcome # "OperationTimedOut" /\ pc # "done")

(* C8 amended: only a caller that passes timeout=None gets an unbounded    *)
(* poll, which neither times out nor returns while every sample is a       *)
(* non-target status that via allows; a caller that leaves the timeout out *)
(* gets the default of 5*60 seconds and "Operation timed out" at the first *)
(* such sample at or after it.                                             *)
C8_NoneTimeoutPollsForever ==
  wfs.caller = "top" =>
    /\ wfs.args.timeout = Given(None) =>
         /\ wfs.timeout = None
         /\ wfs.max_time = None
         /\ outcome # "OperationTimedOut"
         /\ AllTransit => (pc = "wait_for_status" /\ outcome = "running")
    /\ wfs.args.timeout = Omitted =>
         /\ wfs.timeout = Some(300)
         /\ wfs.max_time = Some(wfs.started + 300)
         /\ (AllTransit /\ Len(Seen) > 0
               /\ Seen[Len(Seen)].at >= wfs.started + 300) =>
              outcome = "OperationTimedOut"

\* A poll with timeout=None still running after the default has passed.
C8_Witness ==
  /\ wfs.caller = "top"
  /\ wfs.args.timeout = Given(None)
  /\ wfs.args.sleep_time = Omitted
  /\ pc = "wait_for_status"
  /\ now > wfs.started + 300
  /\ AllTransit

----------------------------------------------------------------------------
(* C9: wait_for_status returns True exactly at the first sample that       *)
(* equals the target, provided every earlier sample was allowed by via and *)
(* was taken before the deadline; it takes no sample and no sleep after    *)
(* that one.                                                               *)
C9_ReturnsAtFirstTarget ==
  wfs.caller = "top" =>
    LET n == Len(Seen) IN
    /\ outcome = "True" =>
         /\ n >= 1
         /\ Seen[n].result = wfs.status
         /\ \A j \in 1..(n - 1) : Seen[j].result # wfs.status
    /\ \A k \in 1..n :
         (/\ Seen[k].result = wfs.status
          /\ \A j \in 1..(k - 1) :
               /\ IsTransit(Seen[j].result)
               /\ wfs.timeout # None => Seen[j].at < wfs.max_time[1]) =>
           /\ k = n
           /\ outcome = "True"
           /\ pc = "done"
           /\ now = Seen[k].at
    /\ n = wfs.samples

\* pending, pending, running with via=["pending"]: True on the third sample.
C9_Witness ==
  /\ outcome = "True"
  /\ wfs.via = Some({"pending"})
  /\ wfs.timeout # None
  /\ Len(Seen) = 3
  /\ Seen[1].result = "pending"
  /\ Seen[2].result = "pending"
  /\ Seen[3].result = "running"

----------------------------------------------------------------------------
(* C10: with via supplied, wait_for_status raises "unexpected status" at   *)
(* the first sample that is neither the target nor in via, with no sleep   *)
(* and no sample after it; with via None it never raises that error.       *)
C10_UnexpectedStatusAtOnce ==
  wfs.caller = "top" =>
    LET n == Len(Seen) IN
    /\ outcome = "UnexpectedStatus" =>
         /\ wfs.via # None
         /\ n >= 1
         /\ Seen[n].result \notin (wfs.via[1] \cup {wfs.status, "ERR"})
         /\ \A j \in 1..(n - 1) : IsTransit(Seen[j].result)
    /\ wfs.via # None =>
         \A k \in 1..n :
           Seen[k].result \notin (wfs.via[1] \cup {wfs.status, "ERR"}) =>
             /\ k = n
             /\ outcome = "UnexpectedStatus"
             /\ pc = "done"
             /\ now = Seen[k].at
    /\ wfs.via = None => outcome # "UnexpectedStatus"

\* pending, stopped with via=["pending"]: raised on the second sample.
C10_Witness ==
  /\ outcome = "UnexpectedStatus"
  /\ wfs.via = Some({"pending"})
  /\ Len(Seen) = 2
  /\ Seen[1].result = "pending"
  /\ Seen[2].result = "stopped"
  /\ now = Seen[2].at

----------------------------------------------------------------------------
\* Every status the resource will report from now on is a transit status.
StaysTransit ==
  \A i \in DOMAIN script[wfs.obj] : IsTransit(script[wfs.obj][i])

C11_AtFirstSampleAtDeadline ==
  (wfs.caller = "top" /\ wfs.timeout # None) =>
    LET seen == Seen
        n == Len(seen)
        transit == \A k \in 1..n : IsTransit(seen[k].result)
    IN
    /\ outcome = "OperationTimedOut" =>
         /\ n >= 1
         /\ transit
         /\ seen[n].at >= wfs.max_time[1]
         /\ \A j \in 1..(n - 1) : seen[j].at < wfs.max_time[1]
    /\ (transit /\ n >= 1 /\ seen[n].at >= wfs.max_time[1]) =>
         /\ outcome = "OperationTimedOut"
         /\ pc = "done"
         /\ now = seen[n].at
    /\ transit => outcome # "True"
    /\ wfs.max_time = Some(wfs.started + wfs.timeout[1])

(* C11: with a finite timeout, a wait_for_status call whose samples are    *)
(* all transit statuses (not the target, and in via when via is given)     *)
(* ends by raising "Operation timed out", at the first sample taken at or  *)
(* after start + timeout, and never returns True.                          *)
C11_TransitTimesOut ==
  /\ []C11_AtFirstSampleAtDeadline
  /\ (/\ pc = "wait_for_status"
      /\ wfs.caller = "top"
      /\ wfs.timeout # None
      /\ AllTransit
      /\ StaysTransit)
       ~> (pc = "done" /\ outcome = "OperationTimedOut")

\* timeout=20, sleep_time=10: samples at 0, 10, 20; the one at 20 raises.
C11_Witness ==
  /\ wfs.caller = "top"
  /\ wfs.timeout = Some(20)
  /\ wfs.sleep_time = 10
  /\ outcome = "OperationTimedOut"
  /\ Len(Seen) = 3
  /\ Seen[3].at = wfs.max_time[1]
  /\ Seen[2].at < wfs.max_time[1]

----------------------------------------------------------------------------
(* C12: a resource with both terminate and delete gets terminate() first,  *)
(* directly on entering its cleanup; it is then polled, one update() after *)
(* the other, until a sample reads "terminated"; delete() is called only   *)
(* directly after that sample, never before it.                            *)
C12_TerminateThenWaitThenDelete ==
  LET n == Len(calls) IN
  \A k \in 1..n :
    LET c == calls[k] IN
    /\ c.op = "terminate" =>
         /\ k > 1
         /\ calls[k - 1].op = "cleanup"
         /\ calls[k - 1].obj = c.obj
         /\ c.result = "ok" =>
              IF k < n
              THEN calls[k + 1].op = "update" /\ calls[k + 1].obj = c.obj
              ELSE pc = "wait_for_status"
    /\ c.op = "update" =>
         /\ k > 1
         /\ calls[k - 1].obj = c.obj
         /\ \/ calls[k - 1].op = "terminate" /\ calls[k - 1].result = "ok"
            \/ /\ calls[k - 1].op = "update"
               /\ calls[k - 1].result \notin {"terminated", "ERR"}
         /\ (c.result = "terminated" /\ HasDelete(c.obj)) =>
              IF k < n
              THEN calls[k + 1].op = "delete" /\ calls[k + 1].obj = c.obj
              ELSE pc = "after_wait"
    /\ (c.op = "delete" /\ HasTerminate(c.obj)) =>
         /\ k > 3
         /\ calls[k - 1].op = "update"
         /\ calls[k - 1].obj = c.obj
         /\ calls[k - 1].result = "terminated"

\* x1 registered once: cleanup, terminate, one poll reading "terminated",
\* delete.
C12_Witness ==
  /\ pc = "done"
  /\ Len(resources) = 1
  /\ Len(calls) = 4
  /\ calls[2].op = "terminate" /\ calls[2].result = "ok"
  /\ calls[3].op = "update" /\ calls[3].result = "terminated"
  /\ calls[4].op = "delete" /\ calls[4].result = "ok"
  /\ \A k \in 1..4 : calls[k].obj = resources[1].resource

----------------------------------------------------------------------------
(* C13: a candidate with delete and without terminate gets exactly one     *)
(* delete() call each time __exit__ attempts it, and no terminate() and no *)
(* update(); a candidate with neither gets no call at all; delete() is     *)
(* called on no resource that lacks it.                                    *)
C13_DeleteOnlyAndInert ==
  LET n == Len(calls) IN
  \A k \in 1..n :
    LET c == calls[k] IN
    /\ (c.op = "cleanup" /\ ~HasTerminate(c.obj)) =>
         IF HasDelete(c.obj)
         THEN /\ k < n
              /\ calls[k + 1].op = "delete"
              /\ calls[k + 1].obj = c.obj
              /\ k + 1 < n => calls[k + 2].op = "cleanup"
         ELSE k < n => calls[k + 1].op = "cleanup"
    /\ c.op \in {"terminate", "update"} => HasTerminate(c.obj)
    /\ c.op = "delete" =>
         /\ HasDelete(c.obj)
         /\ k < n => calls[k + 1].op = "cleanup"

\* v1 (delete only) and x4 (neither), both attempted: one delete() on v1
\* and nothing on x4.
C13_Witness ==
  /\ pc = "done"
  /\ Len(calls) = 3
  /\ calls[1].op = "cleanup" /\ calls[1].obj = "v1"
  /\ calls[2].op = "delete" /\ calls[2].obj = "v1" /\ calls[2].result = "ok"
  /\ calls[3].op = "cleanup" /\ calls[3].obj = "x4"
  /\ logged = << >>

----------------------------------------------------------------------------
\* C14 as stated: the ledger is closed by its first __exit__, so a later
\* __exit__ has no candidate and makes no call.
C14_ClosedAfterFirstExit ==
  Len(exited) >= 2 => (to_cleanup = << >> /\ calls = << >>)

(* C14 amended: the ledger has no closed state.  __exit__ keeps every      *)
(* entry, add() after an __exit__ appends as before, and each __exit__,    *)
(* the first or a later one, attempts every entry that is due under its    *)
(* own exception signal, entries added after an earlier __exit__ and       *)
(* entries already attempted by it included.                               *)
C14_LedgerStaysOpen ==
  /\ \A i \in 1..Len(exited) :
       /\ exited[i] <= Len(resources)
       /\ i > 1 => exited[i - 1] <= exited[i]
  /\ pc # "body" =>
       /\ exited # << >>
       /\ Len(resources) = exited[Len(exited)]
       /\ LET att == Attempted
              ord == TeardownOrder
          IN  /\ IsPrefix(att, ord)
              /\ pc = "done" => att = ord

\* v1 went through one __exit__, i1 was added afterwards, and the second
\* __exit__ attempted i1 and v1 again.
C14_Witness ==
  /\ pc = "done"
  /\ exited = <<1, 2>>
  /\ resources[1] = Entry("v1", FALSE, FALSE)
  /\ resources[2].resource = "i1"
  /\ Attempted = <<"i1", "v1">>
  /\ Len(CallsOn("delete", "v1")) = 1

----------------------------------------------------------------------------
(* C15: an update() that raises ends the wait_for_status call: the error   *)
(* reaches the caller at that moment and the call takes no sample after    *)
(* the failed one.                                                         *)
C15_SamplingErrorPropagates ==
  wfs.caller = "top" =>
    LET seen == Seen
        n == Len(seen)
    IN
    /\ \A k \in 1..n :
         seen[k].result = "ERR" =>
           /\ k = n
           /\ pc = "done"
           /\ outcome = "UpdateError"
           /\ now = seen[k].at
    /\ outcome = "UpdateError" => (n >= 1 /\ seen[n].result = "ERR")
    /\ n = wfs.samples

\* pending, then a failing update(), with the target next in line: the
\* call has ended on the failure and the target is never sampled.
C15_Witness ==
  /\ wfs.caller = "top"
  /\ outcome = "UpdateError"
  /\ Len(Seen) = 2
  /\ Seen[1].result = "pending"
  /\ NextStatus(wfs.obj) = "running"

----------------------------------------------------------------------------
\* A step of add(): the only step that leaves the with-body in the body.
AddStep == pc = "body" /\ pc' = "body"

(* C16: add() puts exactly one entry (resource, keep_on_success,           *)
(* keep_on_error) at the end of the stored entries and leaves the entries  *)
(* before it as they were, also when the resource is stored already; no    *)
(* step of __enter__ or __exit__ changes the stored entries.               *)
C16_OnlyAddAppends ==
  [][IF AddStep
     THEN /\ Len(resources') = Len(resources) + 1
          /\ SubSeq(resources', 1, Len(resources)) = resources
          /\ \E r \in Resources, kos \in BOOLEAN, koe \in BOOLEAN :
               resources'[Len(resources')] = Entry(r, kos, koe)
     ELSE resources' = resources]_vars

\* The same resource stored twice, with different flags, a second scope
\* entered and left: both entries are still there, in the order added.
C16_Witness ==
  /\ pc = "done"
  /\ Len(exited) = 2
  /\ resources = <<Entry("v1", TRUE, FALSE), Entry("v1", FALSE, FALSE)>>
  /\ Attempted = <<"v1">>

----------------------------------------------------------------------------
(* C17: wait_for_instance_ready polls for "running" via "pending" first;   *)
(* every connection attempt comes after the sample that read "running";    *)
(* when the status phase raises, that error is the outcome and no          *)
(* connection attempt is made; the function returns only directly after a  *)
(* connection attempt that succeeded.                                      *)
C17_ConnectAfterRunning ==
  wir.instance # "none" =>
    LET n == Len(calls) IN
    /\ wfs.obj = wir.instance
    /\ wfs.status = "running"
    /\ wfs.via = Some({"pending"})
    /\ \A k \in 1..n :
         calls[k].op = "connect" =>
           /\ k > 1
           /\ \/ calls[k - 1].op = "connect" /\ calls[k - 1].result = "refused"
              \/ calls[k - 1].op = "update" /\ calls[k - 1].result = "running"
           /\ wfs.result = "True"
           /\ wir.status_done # None
           /\ calls[k].result = "ok" => (k = n /\ outcome = "None")
    /\ wfs.result \in {"UnexpectedStatus", "OperationTimedOut", "UpdateError"} =>
         /\ pc = "done"
         /\ outcome = wfs.result
         /\ CallsOf("connect") = << >>
         /\ wir.status_done = None
    /\ outcome = "None" =>
         /\ pc = "done"
         /\ n >= 2
         /\ calls[n].op = "connect"
         /\ calls[n].result = "ok"

\* pending, running, one refused connection, one accepted.
C17_Witness ==
  /\ wir.instance = "i1"
  /\ outcome = "None"
  /\ Len(calls) = 4
  /\ calls[1].op = "update" /\ calls[1].result = "pending"
  /\ calls[2].op = "update" /\ calls[2].result = "running"
  /\ calls[3].op = "connect" /\ calls[3].result = "refused"
  /\ calls[4].op = "connect" /\ calls[4].result = "ok"

----------------------------------------------------------------------------
(* C18: each sample of wait_for_status is one update() call, for a         *)
(* resource with a status attribute as for one without; the value the      *)
(* sample is judged by is the attribute as update() left it when the       *)
(* resource has one, and what update() returned otherwise.                 *)
C18_OneUpdatePerSample ==
  wfs.caller = "top" =>
    LET seen == Seen
        n == Len(seen)
        obj == wfs.obj
    IN  /\ n = wfs.samples
        /\ \A k \in 1..n : seen[k].obj = obj
        /\ (n >= 1 /\ seen[n].result # "ERR") =>
             /\ wfs.cur_status = seen[n].result
             /\ HasStatusAttr(obj) => wfs.cur_status = status_attr[obj]
             /\ outcome = "True" => wfs.cur_status = wfs.status
             /\ pc = "wait_for_status" => wfs.cur_status # wfs.status

\* x1 has a status attribute and an update() that returns nothing: three
\* samples, three update() calls, and the third is judged by the attribute.
C18_Witness ==
  /\ wfs.caller = "top"
  /\ wfs.obj = "x1"
  /\ HasStatusAttr("x1") /\ ~UpdateReturnsStatus("x1")
  /\ outcome = "True"
  /\ wfs.samples = 3
  /\ Len(Seen) = 3
  /\ Seen[2].result = "pending"
  /\ wfs.cur_status = "running"

----------------------------------------------------------------------------
(* C19: a wait_for_status call ends only after at least one sample, also   *)
(* with timeout 0; the last sample is judged target first, then via, then  *)
(* deadline: a target sample at or after the deadline gives True, a sample *)
(* outside via at or after the deadline gives "unexpected status", and     *)
(* "Operation timed out" is raised only on a transit sample.               *)
C19_SampleThenTargetViaDeadline ==
  wfs.caller = "top" =>
    LET seen == Seen
        n == Len(seen)
    IN  /\ pc = "done" => n >= 1
        /\ n >= 1 =>
             LET last == seen[n].result IN
             /\ last = wfs.status => outcome = "True"
             /\ (wfs.via # None /\ last \notin (wfs.via[1] \cup {wfs.status, "ERR"}))
                  => outcome = "UnexpectedStatus"
             /\ outcome = "OperationTimedOut" =>
                  /\ IsTransit(last)
                  /\ seen[n].at >= wfs.max_time[1]

\* timeout=0: the deadline has passed on entry, the one sample taken reads
\* the target and the call returns True.
C19_Witness ==
  /\ wfs.caller = "top"
  /\ wfs.timeout = Some(0)
  /\ wfs.via = Some({"pending"})
  /\ outcome = "True"
  /\ Len(Seen) = 1
  /\ Seen[1].at >= wfs.max_time[1]

----------------------------------------------------------------------------
\* The calls of the pos-th attempt of the running __exit__: from its
\* "cleanup" mark up to the next one.
AttemptCalls(pos) ==
  LET marks == {k \in 1..Len(calls) : calls[k].op = "cleanup"}
      first == CHOOSE k \in marks : Cardinality({j \in marks : j <= k}) = pos
      later == {j \in marks : j > first}
      last == IF later = {} THEN Len(calls) ELSE SetMin(later) - 1
  IN  SubSeq(calls, first, last)

(* C20: when terminate() raises, or the wait for "terminated" raises on a  *)
(* failed update() or on the timeout, the attempt of that candidate ends   *)
(* there: it holds one terminate() call, no delete() call, the raising     *)
(* call is its last, and __exit__ logs it and goes to the next candidate.  *)
C20_NoDeleteAfterFailedTeardown ==
  \A m \in 1..Len(logged) :
    LET l == logged[m]
        grp == AttemptCalls(l.pos)
        n == Len(grp)
    IN  l.error \in {"TerminateError", "UpdateError", "OperationTimedOut"} =>
          /\ HasTerminate(l.obj)
          /\ \A k \in 1..n : grp[k].obj = l.obj /\ grp[k].op # "delete"
          /\ grp[2].op = "terminate"
          /\ \A k \in 3..n : grp[k].op = "update"
          /\ l.error = "TerminateError" => (n = 2 /\ grp[2].result = "raised")
          /\ l.error = "UpdateError" =>
               /\ grp[n].result = "ERR"
               /\ \A k \in 3..(n - 1) : grp[k].result # "ERR"
          /\ l.error = "OperationTimedOut" =>
               /\ n > 2
               /\ grp[n].result \notin {"terminated", "ERR"}
               /\ grp[n].at >= grp[2].at + DefaultTimeout
          /\ (pc = "__exit__" /\ m = Len(logged)) => idx > l.pos

\* i2 stays in "shutting-down" and its wait times out, the update() of x3
\* raises; both have delete and neither gets it.
C20_Witness ==
  /\ pc = "done"
  /\ Len(logged) = 2
  /\ logged[1].obj = "i2" /\ logged[1].error = "OperationTimedOut"
  /\ logged[2].obj = "x3" /\ logged[2].error = "UpdateError"
  /\ HasDelete("i2") /\ HasDelete("x3")
  /\ CallsOf("delete") = << >>
  /\ Len(CallsOf("terminate")) = 2

====
